---- MODULE Spec2Model ----
(***************************************************************************)
(* A model of the mesh light node of gateway/mesh/nodes: generic.py        *)
(* (composition discovery, model binding) and light.py (availability       *)
(* tracker, retained cache writes, conversions, command/query dispatch).   *)
(*                                                                         *)
(* asyncio runs the code between two awaits as one step, so every action   *)
(* below is the code from one await (or the entry of an operation) to the  *)
(* next.  A method is an operator from the node ("self", a record of the   *)
(* object's fields plus the effects it has produced) to the node after.    *)
(***************************************************************************)
EXTENDS Integers, Sequences, FiniteSets, TLC

VARIABLES
    config,                 \* self.config: the options the node reads
    availability_threshold, \* self._availability_threshold
    availability_failures,  \* self._availability_failures
    availability_state,     \* self._availability_state ("unknown" is None)
    composition,            \* self._composition
    bound_models,           \* self._bound_models
    features,               \* self._features
    retained_values,        \* the retained property cache of Node
    callbacks,              \* lightness_cb registered with the client
    ready,                  \* self.ready (an asyncio.Event)
    task,                   \* the task running bind / a command / a query
    poll,                   \* the background task running refresh()
    returned,               \* what bind_model(model) returned to Light.bind
    bind_calls,             \* history: invocations of bind_model, per model
    bind_requests,          \* history: bind_app_key requests sent, per model
    consecutive,            \* history: failures in a row since the last success
    trace                   \* history: the last step's calls, notifications, requests
                            \* and returns, in order

vars == <<config, availability_threshold, availability_failures,
          availability_state, composition, bound_models, features,
          retained_values, callbacks, ready, task, poll, returned,
          bind_calls, bind_requests, consecutive, trace>>

-----------------------------------------------------------------------------
(* Bounds of the model *)

\* the availability_failures option is 0 (which the constructor raises to 1)
\* or MaxThreshold
MaxThreshold == 2
\* no failure is recorded once the counter stands at threshold + MaxExtraFailures
MaxExtraFailures == 1
\* the vendor level is computed for limits up to MaxLevelKelvin, which keeps
\* (kelvin - min_kelvin) * 19200 within the integers of the model checker
MaxLevelKelvin == 100000

-----------------------------------------------------------------------------
(* Program constants *)

BLE_MESH_MIN_LIGHTNESS == 0
BLE_MESH_MAX_LIGHTNESS == 65535
BLE_MESH_MIN_TEMPERATURE == 800
BLE_MESH_MAX_TEMPERATURE == 20000
BLE_MESH_MIN_MIRED == 50
BLE_MESH_MAX_MIRED == 1250

\* Python's None, as an argument or a per-node result; no input equals it
None == -1000000

OnlineProperty == "online"
OnOffProperty == "onoff"
BrightnessProperty == "brightness"
TemperatureProperty == "temperature"

GenericOnOffServer == "GenericOnOffServer"
LightLightnessServer == "LightLightnessServer"
LightCTLServer == "LightCTLServer"
Models == {GenericOnOffServer, LightLightnessServer, LightCTLServer}

\* the node's own address and another node's
Unicast == 10
OtherUnicast == 11

Max(a, b) == IF a >= b THEN a ELSE b
Min(a, b) == IF a <= b THEN a ELSE b

-----------------------------------------------------------------------------
(* The node as a value *)

Self ==
    [config |-> config,
     availability_threshold |-> availability_threshold,
     availability_failures |-> availability_failures,
     availability_state |-> availability_state,
     composition |-> composition,
     bound_models |-> bound_models,
     features |-> features,
     retained_values |-> retained_values,
     callbacks |-> callbacks,
     returned |-> returned,
     bind_calls |-> bind_calls,
     bind_requests |-> bind_requests,
     out |-> <<>>]

Commit(s) ==
    /\ config' = s.config
    /\ availability_threshold' = s.availability_threshold
    /\ availability_failures' = s.availability_failures
    /\ availability_state' = s.availability_state
    /\ composition' = s.composition
    /\ bound_models' = s.bound_models
    /\ features' = s.features
    /\ retained_values' = s.retained_values
    /\ callbacks' = s.callbacks
    /\ returned' = s.returned
    /\ bind_calls' = s.bind_calls
    /\ bind_requests' = s.bind_requests
    /\ trace' = s.out

-----------------------------------------------------------------------------
(* Node: the retained cache and the notification stream *)

\* notify(property, value): overwrite the retained entry, emit a change event
notify(s, property, value) ==
    [s EXCEPT
       !.retained_values =
           [p \in DOMAIN s.retained_values \cup {property} |->
               IF p = property THEN value ELSE s.retained_values[p]],
       !.out = Append(@, [kind |-> "notify", property |-> property,
                          value |-> value])]

\* retained(property, default): the cached value, or default if absent
retained(s, property, default) ==
    IF property \in DOMAIN s.retained_values
    THEN s.retained_values[property]
    ELSE default

\* a request handed to the external client
send(s, request) == [s EXCEPT !.out = Append(@, request)]

-----------------------------------------------------------------------------
(* Light: the availability tracker *)

\* Light.__init__: max(1, config.optional("availability_failures", 3))
InitialThreshold(cfg) == Max(1, cfg.availability_failures)

\* a faulty variant: the success does not reset the failure counter
availability_success_keeps_counter(s) ==
    IF s.availability_state # "online"
    THEN notify([s EXCEPT !.availability_state = "online"],
                "availability", "online")
    ELSE s

availability_success(s) ==
    LET s1 == [s EXCEPT !.availability_failures = 0] IN
    IF s1.availability_state # "online"
    THEN notify([s1 EXCEPT !.availability_state = "online"],
                "availability", "online")
    ELSE s1

\* a faulty variant: the failure is counted and the state left alone
availability_failure_counts_only(s) ==
    [s EXCEPT !.availability_failures = @ + 1]

\* a faulty variant: the threshold is compared one failure early
availability_failure_early(s) ==
    LET s1 == [s EXCEPT !.availability_failures = @ + 1] IN
    IF s1.availability_failures + 1 >= s1.availability_threshold
    THEN IF s1.availability_state # "offline"
         THEN notify([s1 EXCEPT !.availability_state = "offline"],
                     "availability", "offline")
         ELSE s1
    ELSE s1

\* a faulty variant: offline is notified again on every failure past the threshold
availability_failure_renotify(s) ==
    LET s1 == [s EXCEPT !.availability_failures = @ + 1] IN
    IF s1.availability_failures >= s1.availability_threshold
    THEN notify([s1 EXCEPT !.availability_state = "offline"],
                "availability", "offline")
    ELSE s1

availability_failure(s) ==
    LET s1 == [s EXCEPT !.availability_failures = @ + 1] IN
    IF s1.availability_failures >= s1.availability_threshold
    THEN IF s1.availability_state # "offline"
         THEN notify([s1 EXCEPT !.availability_state = "offline"],
                     "availability", "offline")
         ELSE s1
    ELSE s1

-----------------------------------------------------------------------------
(* Light: conversion limits *)

\* "if lo > hi: lo, hi = hi, lo"
ordered(limits) ==
    IF limits[1] > limits[2] THEN <<limits[2], limits[1]>> ELSE limits

\* "min_mired = max(1, min_mired); max_mired = max(min_mired, max_mired)"
raised_mireds(limits) == <<Max(1, limits[1]), Max(Max(1, limits[1]), limits[2])>>

\* _mired_limits: the configured pair, swapped if inverted, then raised
mired_limits(s) ==
    raised_mireds(ordered(<<s.config.mireds_min, s.config.mireds_max>>))

\* int(1e6 / mired) truncates a positive quotient
reciprocal(mireds) ==
    <<Max(BLE_MESH_MIN_TEMPERATURE, 1000000 \div mireds[2]),
      Min(BLE_MESH_MAX_TEMPERATURE, 1000000 \div mireds[1])>>

\* _kelvin_limits: (min_kelvin, max_kelvin), swapped if inverted
kelvin_limits(s) == ordered(reciprocal(mired_limits(s)))

clamp(limits, kelvin) ==
    IF kelvin < limits[1] THEN limits[1]
    ELSE IF kelvin > limits[2] THEN limits[2]
    ELSE kelvin

clamp_kelvin(s, kelvin) == clamp(kelvin_limits(s), kelvin)

\* int(round(x)) for x = q + r / d with 0 <= r < d: Python rounds a half to the
\* even integer
RoundHalfEven(q, r, d) ==
    IF 2 * r < d THEN q
    ELSE IF 2 * r > d THEN q + 1
    ELSE IF q % 2 = 0 THEN q ELSE q + 1

\* int(round(n / d)) for n >= 0 and d > 0
RoundedQuotient(n, d) == RoundHalfEven(n \div d, n % d, d)

\* the linear rescale of a clamped kelvin onto 800..20000
tuya_level(limits, kelvin) ==
    IF limits[2] = limits[1]
    THEN BLE_MESH_MIN_TEMPERATURE
    ELSE RoundedQuotient(
             (kelvin - limits[1])
                 * (BLE_MESH_MAX_TEMPERATURE - BLE_MESH_MIN_TEMPERATURE),
             limits[2] - limits[1]) + BLE_MESH_MIN_TEMPERATURE

\* a faulty variant: the rescale is applied to the kelvin as given
kelvin_to_tuya_level_unclamped(s, kelvin) ==
    tuya_level(kelvin_limits(s), kelvin)

kelvin_to_tuya_level(s, kelvin) ==
    tuya_level(kelvin_limits(s), clamp_kelvin(s, kelvin))

\* Python truthiness of an optional number: None and 0 are false
Truthy(x) == x # None /\ x # 0

-----------------------------------------------------------------------------
(* How a method leaves the step it runs in *)

\* it returned; the frames it goes on to call follow
Done(s) == [self |-> s, status |-> "done", push |-> <<>>]
Call(s, frames) == [self |-> s, status |-> "done", push |-> frames]
\* it awaits the external client's answer to the request it just sent
Await(s) == [self |-> s, status |-> "await", push |-> <<>>]
\* an exception leaves it
Raise(s) == [self |-> s, status |-> "raise", push |-> <<>>]

\* for a get of the node's own address, the per-node entry state[self.unicast]
\* of an answer: nothing for an answer that is None or has no entry
HasEntry(resp) == resp.kind \in {"null", "error", "ok"}

-----------------------------------------------------------------------------
(* Generic: composition discovery and model binding *)

is_model_bound(s, model) == model \in s.bound_models

\* Composition.element(0).supports(model)
element_supports(comp, model) == model \in comp.models

fetch_composition(s) ==
    Await(send(s, [kind |-> "request", call |-> "get_composition_data",
                   nodes |-> <<Unicast>>, net_index |-> 0, timeout |-> 30]))

\* a faulty variant: a dict without page zero counts as a composition that lists nothing
fetch_composition_keeps_empty(s, resp) ==
    IF resp.kind = "raise" THEN Raise(s)
    ELSE IF resp.kind \in {"none", "missing", "null", "error"}
         THEN Done([s EXCEPT !.composition = [present |-> FALSE, models |-> {}]])
    ELSE IF resp.kind = "nozero"
         THEN Done([s EXCEPT !.composition = [present |-> TRUE, models |-> {}]])
    ELSE Done([s EXCEPT !.composition = [present |-> TRUE, models |-> resp.value]])

\* the answer: data is None, lacks the address, holds a non-dict entry (None
\* or an error), a dict without page zero, or a dict with page zero
fetch_composition_result(s, resp) ==
    IF resp.kind = "raise" THEN Raise(s)
    ELSE IF resp.kind \in {"none", "missing", "null", "error"}
         THEN Done([s EXCEPT !.composition = [present |-> FALSE, models |-> {}]])
    ELSE IF resp.kind = "nozero"
         THEN Done([s EXCEPT !.composition = [present |-> FALSE, models |-> {}]])
    ELSE Done([s EXCEPT !.composition = [present |-> TRUE, models |-> resp.value]])

\* a faulty variant: the bind request is sent without the support check
bind_model_unchecked(s, model) ==
    Await(send([s EXCEPT !.bind_calls[model] = @ + 1,
                         !.bind_requests[model] = @ + 1],
               [kind |-> "request", call |-> "bind_app_key",
                destination |-> Unicast, net_index |-> 0,
                element_address |-> Unicast, model |-> model]))

bind_model(s, model) ==
    IF s.composition.present /\ ~element_supports(s.composition, model)
    THEN Done([s EXCEPT !.returned[model] = "False",
                        !.bind_calls[model] = @ + 1])
    ELSE Await(send([s EXCEPT !.bind_calls[model] = @ + 1,
                              !.bind_requests[model] = @ + 1],
                    [kind |-> "request", call |-> "bind_app_key",
                     destination |-> Unicast, net_index |-> 0,
                     element_address |-> Unicast, model |-> model]))

bind_model_result(s, model, resp) ==
    IF resp.kind = "raise" THEN Raise(s)
    ELSE Done([s EXCEPT !.bound_models = @ \cup {model},
                        !.returned[model] = "True"])

-----------------------------------------------------------------------------
(* Light: inbound status, the availability probe *)

supports(s, property) == property \in s.features

\* a faulty variant: a brightness already in the cache is kept
lightness_cb_keeps_written(s, source, message) ==
    IF Unicast = source
    THEN IF BrightnessProperty \in DOMAIN s.retained_values
         THEN availability_success(s)
         ELSE notify(availability_success(s), BrightnessProperty,
                     message.present_lightness)
    ELSE s

\* a faulty variant: the source of the status is not looked at
lightness_cb_any_source(s, source, message) ==
    notify(availability_success(s), BrightnessProperty,
           message.present_lightness)

lightness_cb(s, source, message) ==
    IF Unicast = source
    THEN notify(availability_success(s), BrightnessProperty,
                message.present_lightness)
    ELSE s

get_availability(s) ==
    Await(send(s, [kind |-> "request", call |-> "get_light_status",
                   nodes |-> <<Unicast>>]))

\* a faulty variant: a null per-node result is not counted as a failure
get_availability_result_skips_null(s, resp) ==
    IF resp.kind = "raise" THEN Done(availability_failure(s))
    ELSE IF resp.kind = "null" THEN Done(s)
    ELSE IF ~HasEntry(resp) \/ resp.kind = "error"
         THEN Done(availability_failure(s))
    ELSE Done(availability_success(s))

\* the client raised, or (state or {}).get(unicast) is None or an exception
get_availability_result(s, resp) ==
    IF resp.kind = "raise" THEN Done(availability_failure(s))
    ELSE IF ~HasEntry(resp) \/ resp.kind \in {"null", "error"}
         THEN Done(availability_failure(s))
    ELSE Done(availability_success(s))

-----------------------------------------------------------------------------
(* Light: set requests *)

set_onoff_unack(s, onoff) ==
    Await(send(notify(s, OnOffProperty, onoff),
               [kind |-> "request", call |-> "set_onoff_unack",
                destination |-> Unicast, onoff |-> onoff]))

set_onoff(s, onoff) ==
    Await(send(notify(s, OnOffProperty, onoff),
               [kind |-> "request", call |-> "set_onoff",
                destination |-> Unicast, onoff |-> onoff]))

\* a faulty variant: the request is handed to the client before the cache is notified
set_lightness_unack_sends_first(s, lightness) ==
    LET l == IF lightness > BLE_MESH_MAX_LIGHTNESS
             THEN BLE_MESH_MAX_LIGHTNESS ELSE lightness
    IN  Await(notify(send(s, [kind |-> "request", call |-> "set_lightness_unack",
                              destination |-> Unicast, lightness |-> l]),
                     BrightnessProperty, l))

set_lightness_unack(s, lightness) ==
    LET l == IF lightness > BLE_MESH_MAX_LIGHTNESS
             THEN BLE_MESH_MAX_LIGHTNESS ELSE lightness
    IN  Await(send(notify(s, BrightnessProperty, l),
                   [kind |-> "request", call |-> "set_lightness_unack",
                    destination |-> Unicast, lightness |-> l]))

set_lightness(s, lightness) ==
    LET l == IF lightness > BLE_MESH_MAX_LIGHTNESS
             THEN BLE_MESH_MAX_LIGHTNESS ELSE lightness
    IN  Await(send(notify(s, BrightnessProperty, l),
                   [kind |-> "request", call |-> "set_lightness",
                    nodes |-> <<Unicast>>, lightness |-> l]))

\* "if temperature: temperature = self._clamp_kelvin(temperature)"
clamped_temperature(s, temperature) ==
    IF Truthy(temperature) THEN clamp_kelvin(s, temperature) ELSE temperature

\* "if brightness and brightness > MAX: brightness = MAX"
clamped_brightness(brightness) ==
    IF Truthy(brightness) /\ brightness > BLE_MESH_MAX_LIGHTNESS
    THEN BLE_MESH_MAX_LIGHTNESS ELSE brightness

\* "if value: self.notify(property, value)": the cache after it
notified(s, property, value) ==
    IF Truthy(value) THEN notify(s, property, value) ELSE s

\* "... else: value = self.retained(property, default)": the value after it
supplied(s, property, value, default) ==
    IF Truthy(value) THEN value ELSE retained(s, property, default)

\* "self.kelvin_to_tuya_level(temperature) if is_tuya else temperature"
ctl_temperature(s, temperature, is_tuya) ==
    IF is_tuya THEN kelvin_to_tuya_level(s, temperature) ELSE temperature

\* set_ctl_unack once temperature and brightness are clamped.  A property is
\* read from the cache only when it was not notified, so reading s is reading
\* the cache of that moment.
set_ctl_unack_clamped(s, temperature, brightness, is_tuya) ==
    Await(send(notified(notified(s, TemperatureProperty, temperature),
                        BrightnessProperty, brightness),
               [kind |-> "request", call |-> "set_ctl_unack",
                destination |-> Unicast,
                ctl_temperature |->
                    ctl_temperature(s, supplied(s, TemperatureProperty, temperature,
                                                BLE_MESH_MAX_TEMPERATURE),
                                    is_tuya),
                ctl_lightness |->
                    supplied(s, BrightnessProperty, brightness,
                             BLE_MESH_MAX_LIGHTNESS)]))

set_ctl_unack(s, temperature, brightness, is_tuya) ==
    set_ctl_unack_clamped(s, clamped_temperature(s, temperature),
                          clamped_brightness(brightness), is_tuya)

\* set_ctl once temperature is clamped: the acknowledged request carries
\* ctl_temperature only
set_ctl_clamped(s, temperature, is_tuya) ==
    Await(send(notified(s, TemperatureProperty, temperature),
               [kind |-> "request", call |-> "set_ctl",
                nodes |-> <<Unicast>>,
                ctl_temperature |->
                    ctl_temperature(s, supplied(s, TemperatureProperty, temperature,
                                                BLE_MESH_MAX_TEMPERATURE),
                                    is_tuya)]))

set_ctl(s, temperature, is_tuya) ==
    set_ctl_clamped(s, clamped_temperature(s, temperature), is_tuya)

\* a set request's await: the client's exception leaves the method
set_result(s, resp) == IF resp.kind = "raise" THEN Raise(s) ELSE Done(s)

-----------------------------------------------------------------------------
(* Light: get requests *)

get_request(s, call) ==
    Await(send(s, [kind |-> "request", call |-> call, nodes |-> <<Unicast>>]))

get_onoff(s) == get_request(s, "get_light_status")
get_lightness(s) == get_request(s, "get_lightness")
get_lightness_range(s) == get_request(s, "get_lightness_range")
get_ctl(s) == get_request(s, "get_ctl")
get_light_temperature_range(s) == get_request(s, "get_light_temperature_range")

\* a faulty variant: a null or error-typed result counts as an availability failure
get_onoff_result_counts(s, resp) ==
    IF resp.kind = "raise" \/ ~HasEntry(resp) THEN Raise(s)
    ELSE IF resp.kind = "null" THEN Done(availability_failure(s))
    ELSE IF resp.kind # "error"
         THEN Done(notify(s, OnOffProperty, resp.value))
    ELSE Done(availability_failure(s))

\* state[self.unicast] raises on an answer that is None or has no entry
get_onoff_result(s, resp) ==
    IF resp.kind = "raise" \/ ~HasEntry(resp) THEN Raise(s)
    ELSE IF resp.kind = "null" THEN Done(s)
    ELSE IF resp.kind # "error"
         THEN Done(notify(s, OnOffProperty, resp.value))
    ELSE Done(s)

get_lightness_result(s, resp) ==
    IF resp.kind = "raise" \/ ~HasEntry(resp) THEN Raise(s)
    ELSE IF resp.kind = "null" THEN Done(s)
    ELSE IF resp.kind # "error"
         THEN Done(notify(s, BrightnessProperty, resp.value))
    ELSE Done(s)

\* get_lightness_range, get_ctl, get_light_temperature_range only log
get_logged_result(s, resp) ==
    IF resp.kind = "raise" \/ ~HasEntry(resp) THEN Raise(s)
    ELSE Done(s)

-----------------------------------------------------------------------------
(* Light: command dispatch.  True and False are 1 and 0, as in Python. *)

turn_on(s, ack) ==
    Call(s, <<[f |-> IF ack THEN "set_onoff" ELSE "set_onoff_unack",
               onoff |-> 1]>>)

turn_off(s, ack) ==
    Call(s, <<[f |-> IF ack THEN "set_onoff" ELSE "set_onoff_unack",
               onoff |-> 0]>>)

\* a faulty variant: the brightness setter does not look at the bound models
set_brightness_ungated(s, brightness, ack) ==
    Call(s, <<[f |-> IF ack THEN "set_lightness" ELSE "set_lightness_unack",
               lightness |-> brightness]>>)

set_brightness(s, brightness, ack) ==
    IF is_model_bound(s, LightLightnessServer)
    THEN Call(s, <<[f |-> IF ack THEN "set_lightness" ELSE "set_lightness_unack",
                    lightness |-> brightness]>>)
    ELSE Done(s)

kelvin(s, temperature, ack) ==
    IF is_model_bound(s, LightCTLServer)
    THEN Call(s, <<[f |-> IF ack THEN "set_ctl" ELSE "set_ctl_unack",
                    temperature |-> temperature, brightness |-> None,
                    is_tuya |-> FALSE]>>)
    ELSE Done(s)

\* 1000000 // temperature raises ZeroDivisionError for temperature = 0
mireds_to_kelvin(s, temperature, ack, is_tuya) ==
    IF is_model_bound(s, LightCTLServer)
    THEN IF temperature = 0 THEN Raise(s)
         ELSE Call(s, <<[f |-> IF ack THEN "set_ctl" ELSE "set_ctl_unack",
                         temperature |->
                             clamp_kelvin(s, Max(1, 1000000 \div temperature)),
                         brightness |-> None,
                         is_tuya |-> is_tuya]>>)
    ELSE Done(s)

\* refresh_state, from its at-th "if self.supports(...)" on
refresh_state(s, at) ==
    LET property == <<OnOffProperty, BrightnessProperty, TemperatureProperty>>
        get == <<"get_onoff", "get_lightness", "get_ctl">>
    IN  IF at > 3 THEN Done(s)
        ELSE IF supports(s, property[at])
             THEN Call(s, <<[f |-> get[at]],
                            [f |-> "refresh_state", at |-> at + 1]>>)
        ELSE Call(s, <<[f |-> "refresh_state", at |-> at + 1]>>)

-----------------------------------------------------------------------------
(* Light.bind and Generic.bind *)

\* a faulty variant: LightLightnessServer is attempted before GenericOnOffServer
bind_reordered(s) ==
    Call(s, <<[f |-> "fetch_composition"],
              [f |-> "bind_model", model |-> LightLightnessServer],
              [f |-> "bind_if", model |-> LightLightnessServer],
              [f |-> "bind_model", model |-> GenericOnOffServer],
              [f |-> "bind_if", model |-> GenericOnOffServer],
              [f |-> "bind_model", model |-> LightCTLServer],
              [f |-> "bind_if", model |-> LightCTLServer],
              [f |-> "add_callback"]>>)

\* Generic.bind: Node.bind(app), then the composition fetch;
\* Light.bind: the three models in order, then the status callback
bind(s) ==
    Call(s, <<[f |-> "fetch_composition"],
              [f |-> "bind_model", model |-> GenericOnOffServer],
              [f |-> "bind_if", model |-> GenericOnOffServer],
              [f |-> "bind_model", model |-> LightLightnessServer],
              [f |-> "bind_if", model |-> LightLightnessServer],
              [f |-> "bind_model", model |-> LightCTLServer],
              [f |-> "bind_if", model |-> LightCTLServer],
              [f |-> "add_callback"]>>)

\* a faulty variant: LightLightnessServer grants brightness only
bind_if_brightness_only(s, model) ==
    IF s.returned[model] # "True" THEN Done(s)
    ELSE IF model = GenericOnOffServer
         THEN Call([s EXCEPT !.features = @ \cup {OnOffProperty}],
                   <<[f |-> "get_onoff"]>>)
    ELSE IF model = LightLightnessServer
         THEN Call([s EXCEPT !.features = @ \cup {BrightnessProperty}],
                   <<[f |-> "get_lightness"], [f |-> "get_lightness_range"]>>)
    ELSE Call([s EXCEPT !.features =
                   @ \cup {TemperatureProperty, BrightnessProperty}],
              <<[f |-> "get_ctl"], [f |-> "get_light_temperature_range"]>>)

\* the body of "if await self.bind_model(model):" in Light.bind
bind_if(s, model) ==
    IF s.returned[model] # "True" THEN Done(s)
    ELSE IF model = GenericOnOffServer
         THEN Call([s EXCEPT !.features = @ \cup {OnOffProperty}],
                   <<[f |-> "get_onoff"]>>)
    ELSE IF model = LightLightnessServer
         THEN Call([s EXCEPT !.features =
                        @ \cup {OnOffProperty, BrightnessProperty}],
                   <<[f |-> "get_lightness"], [f |-> "get_lightness_range"]>>)
    ELSE Call([s EXCEPT !.features =
                   @ \cup {TemperatureProperty, BrightnessProperty}],
              <<[f |-> "get_ctl"], [f |-> "get_light_temperature_range"]>>)

add_callback(s) == Done([s EXCEPT !.callbacks = TRUE])

-----------------------------------------------------------------------------
(* The task: frames run in order, each to its await or its return *)

\* a frame from its entry to its first await
Enter(s, fr) ==
    CASE fr.f = "bind" -> bind(s)
      [] fr.f = "fetch_composition" -> fetch_composition(s)
      [] fr.f = "bind_model" -> bind_model(s, fr.model)
      [] fr.f = "bind_if" -> bind_if(s, fr.model)
      [] fr.f = "add_callback" -> add_callback(s)
      [] fr.f = "turn_on" -> turn_on(s, fr.ack)
      [] fr.f = "turn_off" -> turn_off(s, fr.ack)
      [] fr.f = "set_brightness" -> set_brightness(s, fr.brightness, fr.ack)
      [] fr.f = "kelvin" -> kelvin(s, fr.temperature, fr.ack)
      [] fr.f = "mireds_to_kelvin" ->
             mireds_to_kelvin(s, fr.temperature, fr.ack, fr.is_tuya)
      [] fr.f = "refresh_state" -> refresh_state(s, fr.at)
      [] fr.f = "set_onoff_unack" -> set_onoff_unack(s, fr.onoff)
      [] fr.f = "set_onoff" -> set_onoff(s, fr.onoff)
      [] fr.f = "set_lightness_unack" -> set_lightness_unack(s, fr.lightness)
      [] fr.f = "set_lightness" -> set_lightness(s, fr.lightness)
      [] fr.f = "set_ctl_unack" ->
             set_ctl_unack(s, fr.temperature, fr.brightness, fr.is_tuya)
      [] fr.f = "set_ctl" -> set_ctl(s, fr.temperature, fr.is_tuya)
      [] fr.f = "get_onoff" -> get_onoff(s)
      [] fr.f = "get_lightness" -> get_lightness(s)
      [] fr.f = "get_lightness_range" -> get_lightness_range(s)
      [] fr.f = "get_ctl" -> get_ctl(s)
      [] fr.f = "get_light_temperature_range" -> get_light_temperature_range(s)

\* an awaiting frame from the client's answer to its return
Leave(s, fr, resp) ==
    CASE fr.f = "fetch_composition" -> fetch_composition_result(s, resp)
      [] fr.f = "bind_model" -> bind_model_result(s, fr.model, resp)
      [] fr.f \in {"set_onoff_unack", "set_onoff", "set_lightness_unack",
                   "set_lightness", "set_ctl_unack", "set_ctl"} ->
             set_result(s, resp)
      [] fr.f = "get_onoff" -> get_onoff_result(s, resp)
      [] fr.f = "get_lightness" -> get_lightness_result(s, resp)
      [] fr.f \in {"get_lightness_range", "get_ctl",
                   "get_light_temperature_range"} ->
             get_logged_result(s, resp)

\* the task after a step: the node, the frames left (the head awaits), and how
\* the operation stands
After(r, k) ==
    [self |-> r.self,
     k |-> IF r.status = "raise" THEN <<>> ELSE k,
     outcome |-> IF r.status = "raise" THEN "raised"
                 ELSE IF k = <<>> THEN "returned" ELSE "running"]

RECURSIVE Run(_, _)
Run(s, k) ==
    IF k = <<>> THEN After(Done(s), <<>>)
    ELSE LET r == Enter(s, Head(k)) IN
         IF r.status = "raise" THEN After(r, <<>>)
         ELSE IF r.status = "await" THEN After(r, k)
         ELSE Run(r.self, r.push \o Tail(k))

Resume(s, k, resp) ==
    LET r == Leave(s, Head(k), resp) IN
    IF r.status = "raise" THEN After(r, <<>>)
    ELSE Run(r.self, r.push \o Tail(k))

-----------------------------------------------------------------------------
(* Inputs *)

\* (mireds_min, mireds_max) as configured: the defaults, an inverted pair
ConfigMireds == {<<BLE_MESH_MIN_MIRED, BLE_MESH_MAX_MIRED>>}

Configs ==
    {[availability_failures |-> a, mireds_min |-> m[1], mireds_max |-> m[2]] :
        a \in {0, MaxThreshold}, m \in ConfigMireds}

BrightnessInputs == {300, 65536}
KelvinInputs == {0, 25000}
MiredInputs == {0, 370}
\* the models page zero lists for element 0: none, one, or all three
Compositions == {{}, Models} \cup {{m} : m \in Models}
\* what the device reports
DeviceOnOff == {0, 1}
DeviceLightness == {300}
DeviceTemperature == {3000}

Commands ==
    {[f |-> c, ack |-> a] : c \in {"turn_on", "turn_off"}, a \in BOOLEAN}
    \cup {[f |-> "set_brightness", brightness |-> b, ack |-> a] :
             b \in BrightnessInputs, a \in BOOLEAN}
    \cup {[f |-> "kelvin", temperature |-> k, ack |-> a] :
             k \in KelvinInputs, a \in BOOLEAN}
    \cup {[f |-> "mireds_to_kelvin", temperature |-> m, ack |-> a,
           is_tuya |-> v] : m \in MiredInputs, a \in BOOLEAN, v \in BOOLEAN}
    \cup {[f |-> c] : c \in {"get_onoff", "get_lightness", "get_ctl"}}
    \cup {[f |-> "refresh_state", at |-> 1]}

Answer(kind, value) == [kind |-> kind, value |-> value]

\* a per-node answer that carries no value: the client raised, the answer is
\* None, has no entry for the address, or the entry is None or an exception
Failures == {Answer(kind, None) : kind \in {"raise", "none", "missing", "null", "error"}}

\* what the external client may answer to the request frame fr awaits
Answers(fr) ==
    CASE fr.f = "fetch_composition" ->
             {Answer(kind, {}) :
                 kind \in {"raise", "none", "missing", "null", "error", "nozero"}}
             \cup {Answer("ok", ms) : ms \in Compositions}
      [] fr.f = "get_onoff" ->
             Failures \cup {Answer("ok", v) : v \in DeviceOnOff}
      [] fr.f = "get_lightness" ->
             Failures \cup {Answer("ok", v) : v \in DeviceLightness}
      [] fr.f = "get_ctl" ->
             Failures \cup {Answer("ok", v) : v \in DeviceTemperature}
      [] fr.f \in {"get_lightness_range", "get_light_temperature_range"} ->
             Failures \cup {Answer("ok", None)}
      [] OTHER -> {Answer("raise", None), Answer("ok", None)}

-----------------------------------------------------------------------------
(* The state after construction *)

\* the node constructed with one of the given configurations
Constructed(configs) ==
    /\ config \in configs
    /\ availability_threshold = InitialThreshold(config)
    /\ availability_failures = 0
    /\ availability_state = "unknown"
    /\ composition = [present |-> FALSE, models |-> {}]
    /\ bound_models = {}
    /\ features = {}
    /\ retained_values = <<>>
    /\ callbacks = FALSE
    /\ ready = FALSE
    /\ task = [op |-> [f |-> "none"], k |-> <<>>]
    /\ poll = "wait"
    /\ returned = [m \in Models |-> "none"]
    /\ bind_calls = [m \in Models |-> 0]
    /\ bind_requests = [m \in Models |-> 0]
    /\ consecutive = 0
    /\ trace = <<>>

Init == Constructed(Configs)

-----------------------------------------------------------------------------
(* Actions *)

\* the task between two operations
Idle == [f |-> "idle"]

\* the node after the step a of operation f: its return or its exception, if
\* the step ends the operation, closes the step's trace
Closed(a, f) ==
    IF a.outcome = "running" THEN a.self
    ELSE send(a.self, [kind |-> a.outcome, op |-> f])

\* the task enters operation op and runs to its first await or its return
Start(op) ==
    LET a == Run(send(Self, [kind |-> "call", op |-> op]), <<op>>) IN
    /\ Commit(Closed(a, op.f))
    /\ task' = [op |-> IF a.k = <<>> THEN Idle ELSE op, k |-> a.k]
    /\ UNCHANGED <<ready, poll, consecutive>>

\* bind(app), once, on the node as constructed
Bind ==
    /\ task.op.f = "none"
    /\ Start([f |-> "bind"])

\* a command or query, once bind has returned and no other is running
Command(c) ==
    /\ callbacks
    /\ task.k = <<>>
    /\ Start(c)

\* the frame whose request is in flight
Awaited == IF task.k = <<>> THEN [f |-> "none"] ELSE Head(task.k)

\* the client answers the request the task awaits
Respond(resp) ==
    /\ task.k # <<>>
    /\ LET a == Resume(Self, task.k, resp) IN
       /\ Commit(Closed(a, task.op.f))
       /\ task' = [op |-> IF a.k = <<>> THEN Idle ELSE task.op, k |-> a.k]
    /\ UNCHANGED <<ready, poll, consecutive>>

\* the node is marked ready once bound
MarkReady ==
    /\ callbacks
    /\ ~ready
    /\ ready' = TRUE
    /\ trace' = <<>>
    /\ UNCHANGED <<config, availability_threshold, availability_failures,
                   availability_state, composition, bound_models, features,
                   retained_values, callbacks, task, poll, returned,
                   bind_calls, bind_requests, consecutive>>

\* refresh(): after ready.wait(), or after the sleep, the next probe is sent
Probe ==
    /\ \/ poll = "wait" /\ ready
       \/ poll = "sleep"
    /\ Commit(get_availability(Self).self)
    /\ poll' = "probe"
    /\ UNCHANGED <<ready, task, consecutive>>

IsFailure(resp) == resp.kind # "ok"

\* the probe is answered; refresh() goes to sleep
ProbeResult(resp) ==
    /\ poll = "probe"
    /\ IsFailure(resp) =>
           availability_failures < availability_threshold + MaxExtraFailures
    /\ Commit(get_availability_result(Self, resp).self)
    /\ poll' = "sleep"
    /\ consecutive' = IF IsFailure(resp) THEN consecutive + 1 ELSE 0
    /\ UNCHANGED <<ready, task>>

\* a LIGHT_LIGHTNESS_STATUS message reaches the registered callback
LightnessStatus(source, lightness) ==
    /\ callbacks
    /\ Commit(lightness_cb(Self, source,
                           [present_lightness |-> lightness]))
    /\ consecutive' = IF source = Unicast THEN 0 ELSE consecutive
    /\ UNCHANGED <<ready, task, poll>>

Next ==
    \/ Bind
    \/ \E c \in Commands : Command(c)
    \/ \E resp \in Answers(Awaited) : Respond(resp)
    \/ MarkReady
    \/ Probe
    \/ \E resp \in Failures \cup {Answer("ok", 1)} : ProbeResult(resp)
    \/ \E source \in {Unicast, OtherUnicast}, lightness \in DeviceLightness :
           LightnessStatus(source, lightness)

Spec == Init /\ [][Next]_vars

-----------------------------------------------------------------------------
(* Reading a step's trace *)

\* the positions of the notifications in a trace
Notifications(tr) == {i \in DOMAIN tr : tr[i].kind = "notify"}

\* the positions where property is notified with value
Notes(tr, property, value) ==
    {i \in DOMAIN tr : /\ tr[i].kind = "notify"
                       /\ tr[i].property = property
                       /\ tr[i].value = value}

\* the positions of the requests handed to the client
Requests(tr) == {i \in DOMAIN tr : tr[i].kind = "request"}

\* the step records an availability failure: a probe answered by anything but
\* a valid per-node result
FailureStep == \E resp \in Failures : ProbeResult(resp)

\* the step records an availability success: a probe answered by a valid
\* result, or a lightness status from this node
SuccessStep ==
    \/ ProbeResult(Answer("ok", 1))
    \/ \E lightness \in DeviceLightness : LightnessStatus(Unicast, lightness)

-----------------------------------------------------------------------------
(* Availability tracker *)

\* C1 (hysteresis): for every threshold (always >= 1), the availability state
\* becomes offline only in a step that records a failure, and that failure is at
\* least the threshold-th in a row since the last success or since construction;
\* while the state is offline at least threshold failures in a row are on record.
C1_Hysteresis ==
    [][/\ availability_threshold' >= 1
       /\ (availability_state # "offline" /\ availability_state' = "offline")
              => /\ FailureStep
                 /\ consecutive' = consecutive + 1
                 /\ consecutive' >= availability_threshold
       /\ availability_state' = "offline"
              => consecutive' >= availability_threshold']_vars

\* the node went offline on exactly the threshold-th failure, threshold > 1
C1_Witness ==
    /\ availability_threshold = MaxThreshold
    /\ availability_threshold > 1
    /\ availability_state = "offline"
    /\ consecutive = availability_threshold

\* C2: in a run of failures in a row from state unknown or online, the step
\* recording the threshold-th failure notifies availability=offline exactly
\* once, every other failure step notifies nothing, and a failure recorded
\* while the state is already offline notifies nothing.
C2_OfflineNotifiedOnce ==
    [][FailureStep =>
          /\ Cardinality(Notes(trace', "availability", "offline"))
                 = (IF consecutive' = availability_threshold THEN 1 ELSE 0)
          /\ Cardinality(Notifications(trace'))
                 = (IF consecutive' = availability_threshold THEN 1 ELSE 0)
          /\ availability_state = "offline" => Notifications(trace') = {}
          /\ consecutive' >= availability_threshold
                 => availability_state' = "offline"]_vars

\* the threshold-th failure in a row, for the largest threshold modelled: from
\* unknown to offline with one notification
C2_Witness ==
    /\ availability_threshold = MaxThreshold
    /\ consecutive = availability_threshold
    /\ availability_state = "offline"
    /\ retained_values = [p \in {"availability"} |-> "offline"]
    /\ trace = <<[kind |-> "notify", property |-> "availability",
                  value |-> "offline"]>>

\* C3: a recorded success, whatever the state and the counter, leaves the
\* failure counter at 0 and the state online; it notifies availability=online
\* exactly once when the state before was not online and not at all when it was.
C3_SuccessResets ==
    [][SuccessStep =>
          /\ availability_failures' = 0
          /\ availability_state' = "online"
          /\ Cardinality(Notes(trace', "availability", "online"))
                 = (IF availability_state # "online" THEN 1 ELSE 0)
          /\ Notes(trace', "availability", "offline") = {}]_vars

\* a success recorded by the probe brought the node online and notified it
C3_Witness ==
    /\ availability_state = "online"
    /\ availability_failures = 0
    /\ poll = "sleep"
    /\ trace = <<[kind |-> "notify", property |-> "availability",
                  value |-> "online"]>>

-----------------------------------------------------------------------------
(* Model binding *)

\* the client answers the bind_app_key request of bind_model(model) normally
BindAnswered(model) ==
    /\ Awaited.f = "bind_model"
    /\ Awaited.model = model
    /\ Respond(Answer("ok", None))

\* the events of a trace that end an operation with an exception
Raised(tr) == {i \in DOMAIN tr : tr[i].kind = "raised"}

\* C4: with the composition present, bind_model(model) for a model element zero
\* does not list returns False, sends no bind_app_key request and leaves the
\* bound-model set as it was; for a model element zero lists, every invocation
\* sends exactly one bind_app_key request, and when the client answers it the
\* model is in the bound-model set and bind_model returns True.
C4_BindModelGated ==
    [][composition'.present =>
          \A m \in Models :
             /\ (m \notin composition'.models /\ bind_calls'[m] > 0)
                    => /\ returned'[m] = "False"
                       /\ bind_requests'[m] = 0
                       /\ m \notin bound_models'
             /\ m \in composition'.models
                    => /\ bind_requests'[m] = bind_calls'[m]
                       /\ returned'[m] # "False"
                       /\ (returned'[m] = "True") <=> (m \in bound_models')
             /\ (m \in composition'.models /\ BindAnswered(m))
                    => /\ returned'[m] = "True"
                       /\ bound_models' = bound_models \cup {m}
                       /\ bind_requests'[m] = bind_requests[m]]_vars

\* element zero lists LightLightnessServer only: GenericOnOffServer was refused
\* without a request, LightLightnessServer was bound with one
C4_Witness ==
    /\ composition.present
    /\ composition.models = {LightLightnessServer}
    /\ returned[GenericOnOffServer] = "False"
    /\ bind_requests[GenericOnOffServer] = 0
    /\ returned[LightLightnessServer] = "True"
    /\ bind_requests[LightLightnessServer] = 1
    /\ bound_models = {LightLightnessServer}

\* the composition fetch is answered without an entry for the node's address
\* (no data, no entry, an entry that is None or an error) or without page zero
FetchAnsweredAbsent ==
    /\ Awaited.f = "fetch_composition"
    /\ \E kind \in {"none", "missing", "null", "error", "nozero"} :
           Respond(Answer(kind, {}))

\* C5 (permissive fallback): a composition fetch that yields no entry for the
\* node's address or no page zero completes without an exception and leaves the
\* composition absent; while the composition is absent every bind_model(model)
\* sends the bind request, never returns False, and returns True with the model
\* bound once the client answers.
C5_PermissiveFallback ==
    [][/\ FetchAnsweredAbsent
              => /\ ~composition'.present
                 /\ Raised(trace') = {}
       /\ ~composition'.present
              => \A m \in Models :
                    /\ bind_requests'[m] = bind_calls'[m]
                    /\ returned'[m] # "False"
                    /\ BindAnswered(m)
                           => /\ returned'[m] = "True"
                              /\ m \in bound_models']_vars

\* after a fetch without page zero all three models were bound unchecked
C5_Witness ==
    /\ ~composition.present
    /\ \A m \in Models : /\ returned[m] = "True"
                         /\ bind_requests[m] = 1
    /\ bound_models = Models

-----------------------------------------------------------------------------
(* Setters *)

\* the client calls that set a value on the device
SetCalls ==
    {"set_onoff_unack", "set_onoff", "set_lightness_unack", "set_lightness",
     "set_ctl_unack", "set_ctl"}

\* the positions of the set requests in a trace
SetRequests(tr) ==
    {i \in DOMAIN tr : tr[i].kind = "request" /\ tr[i].call \in SetCalls}

\* the value under property in a cache
Cached(cache, property, value) ==
    property \in DOMAIN cache /\ cache[property] = value

\* C6 (partial CTL update): the request of a temperature setter called without
\* a brightness, acknowledged or not, carries as its lightness the brightness
\* retained in the cache at that moment, and the retained brightness stays as
\* it was.
C6_PartialCtlUpdate ==
    [][(BrightnessProperty \in DOMAIN retained_values) =>
          \A i \in SetRequests(trace') :
             trace'[i].call \in {"set_ctl_unack", "set_ctl"}
                => /\ "ctl_lightness" \in DOMAIN trace'[i]
                   /\ trace'[i].ctl_lightness = retained_values[BrightnessProperty]
                   /\ Cached(retained_values', BrightnessProperty,
                             retained_values[BrightnessProperty])]_vars

\* the step is a call of a setter whose model is not bound
GatedCall(tr) ==
    /\ tr # <<>>
    /\ tr[1].kind = "call"
    /\ \/ /\ tr[1].op.f = "set_brightness"
          /\ ~is_model_bound(Self, LightLightnessServer)
       \/ /\ tr[1].op.f \in {"kelvin", "mireds_to_kelvin"}
          /\ ~is_model_bound(Self, LightCTLServer)

\* C7 (capability gating): set_brightness without LightLightnessServer bound,
\* and kelvin and mireds_to_kelvin without LightCTLServer bound, hand no request
\* to the client, notify nothing, leave the retained cache as it was and return
\* without an exception: the call returns in the step it is made in.
C7_SettersGated ==
    [][GatedCall(trace') =>
          /\ trace' = <<[kind |-> "call", op |-> trace'[1].op],
                        [kind |-> "returned", op |-> trace'[1].op.f]>>
          /\ retained_values' = retained_values
          /\ task'.k = <<>>]_vars

\* set_brightness returned at once on a node bound without LightLightnessServer
C7_Witness ==
    /\ callbacks
    /\ ~is_model_bound(Self, LightLightnessServer)
    /\ Len(trace) = 2
    /\ trace[1].kind = "call"
    /\ trace[1].op.f = "set_brightness"
    /\ trace[2] = [kind |-> "returned", op |-> "set_brightness"]

\* some notification before position i of the trace puts value under property
NotifiedBefore(tr, i, property, value) ==
    \E j \in Notes(tr, property, value) : j < i

\* the request at position i of a step's trace carries a value the cache was
\* notified of before it, and the cache after the step holds that value
Optimistic(tr, i) ==
    CASE tr[i].call \in {"set_onoff_unack", "set_onoff"} ->
             /\ NotifiedBefore(tr, i, OnOffProperty, tr[i].onoff)
             /\ Cached(retained_values', OnOffProperty, tr[i].onoff)
      [] tr[i].call \in {"set_lightness_unack", "set_lightness"} ->
             /\ NotifiedBefore(tr, i, BrightnessProperty, tr[i].lightness)
             /\ Cached(retained_values', BrightnessProperty, tr[i].lightness)
      [] tr[i].call \in {"set_ctl_unack", "set_ctl"} ->
             Truthy(tr[1].op.temperature) =>
                \E j \in Notifications(tr) :
                   /\ j < i
                   /\ tr[j].property = TemperatureProperty
                   /\ Cached(retained_values', TemperatureProperty, tr[j].value)
                   /\ tr[i].ctl_temperature =
                         IF tr[1].op.f = "mireds_to_kelvin" /\ tr[1].op.is_tuya
                         THEN kelvin_to_tuya_level(Self, tr[j].value)
                         ELSE tr[j].value

\* the client answers a set request, normally or with an exception
SetAnswered ==
    /\ Awaited.f \in SetCalls
    /\ \E resp \in Answers(Awaited) : Respond(resp)

-----------------------------------------------------------------------------
(* Errors and queries *)

\* C9: no command or query operation (turn_on, turn_off, set_brightness, the
\* temperature setters, get_onoff, get_lightness, get_ctl, refresh_state) ends
\* with an exception: only bind may raise.
C9_NoErrorEscapes ==
    \A i \in Raised(trace) : trace[i].op = "bind"

\* the client answers an ad hoc query with a per-node result that is null or
\* error-typed
QueryAnsweredInvalid ==
    /\ Awaited.f \in {"get_onoff", "get_lightness", "get_ctl"}
    /\ \E kind \in {"null", "error"} : Respond(Answer(kind, None))

\* C10: get_onoff, get_lightness or get_ctl answered with a null or error-typed
\* per-node result does not raise, notifies nothing, and leaves the retained
\* cache, the availability failure counter and the availability state as they
\* were; the failure counter grows only in a step of the availability probe.
C10_InvalidQueryResult ==
    [][/\ QueryAnsweredInvalid
              => /\ Raised(trace') = {}
                 /\ Notifications(trace') = {}
                 /\ retained_values' = retained_values
                 /\ availability_failures' = availability_failures
                 /\ availability_state' = availability_state
       /\ availability_failures' > availability_failures
              => FailureStep]_vars

\* get_onoff returned on a null or error-typed result (a valid one would have
\* been notified) while failures recorded by the probe stand
C10_Witness ==
    /\ trace = <<[kind |-> "returned", op |-> "get_onoff"]>>
    /\ availability_failures > 0
    /\ availability_state = "online"

\* the client answers the query f with a valid per-node result reporting value
QueryAnsweredValid(f, value) ==
    /\ Awaited.f = f
    /\ Respond(Answer("ok", value))

\* the query answered with value put it in the cache under property and emitted
\* one change event for it
CacheUpdated(f, property, value) ==
    QueryAnsweredValid(f, value)
        => /\ Cached(retained_values', property, value)
           /\ Cardinality(Notes(trace', property, value)) = 1

\* C11: after get_onoff, get_lightness or get_ctl is answered with a valid
\* per-node result, the retained entry of the queried property (onoff,
\* brightness, temperature) is the value reported and one change event for it
\* was emitted.
C11_QueryUpdatesCache ==
    [][/\ \A v \in DeviceOnOff : CacheUpdated("get_onoff", OnOffProperty, v)
       /\ \A v \in DeviceLightness :
              CacheUpdated("get_lightness", BrightnessProperty, v)
       /\ \A v \in DeviceTemperature :
              CacheUpdated("get_ctl", TemperatureProperty, v)]_vars

-----------------------------------------------------------------------------
(* The poll loop *)

\* the probe is answered, by a result or an exception
ProbeAnswered ==
    \E resp \in Failures \cup {Answer("ok", 1)} : ProbeResult(resp)

\* the probe is answered with a valid per-node result
ProbeSucceeded == ProbeResult(Answer("ok", 1))

\* the node without commands: bind, the poll loop and inbound statuses
PollNext ==
    \/ Bind
    \/ \E resp \in Answers(Awaited) : Respond(resp)
    \/ MarkReady
    \/ Probe
    \/ ProbeAnswered
    \/ \E source \in {Unicast, OtherUnicast}, lightness \in DeviceLightness :
           LightnessStatus(source, lightness)

\* asyncio.sleep(60) ends, so the next probe is sent; the client's
\* get_light_status returns or raises, so a probe is answered (as long as the
\* modelled counter has room for the answer)
PollSpec ==
    /\ Init
    /\ [][PollNext]_vars
    /\ WF_vars(Probe)
    /\ WF_vars(ProbeAnswered
                 /\ availability_failures
                        < availability_threshold + MaxExtraFailures)

-----------------------------------------------------------------------------
(* The bind sequence *)

\* C13 (bind sequence): bind_model is invoked only once the composition fetch
\* has completed; GenericOnOffServer, LightLightnessServer and LightCTLServer
\* are attempted in that order, each after the one before it has returned; a
\* model skipped as unsupported (bind_model returned False) does not keep the
\* next from being attempted, and when bind has returned all three were
\* attempted, once each.
C13_BindSequence ==
    /\ \A m \in Models : bind_calls[m] <= 1
    /\ (\E m \in Models : bind_calls[m] > 0)
           => /\ task.op.f # "none"
              /\ Awaited.f # "fetch_composition"
    /\ bind_calls[LightLightnessServer] > 0
           => /\ bind_calls[GenericOnOffServer] = 1
              /\ returned[GenericOnOffServer] # "none"
    /\ bind_calls[LightCTLServer] > 0
           => /\ bind_calls[LightLightnessServer] = 1
              /\ returned[LightLightnessServer] # "none"
    /\ returned[GenericOnOffServer] = "False"
           => bind_calls[LightLightnessServer] = 1
    /\ returned[LightLightnessServer] = "False"
           => bind_calls[LightCTLServer] = 1
    /\ callbacks => \A m \in Models : bind_calls[m] = 1

\* bind returned after skipping GenericOnOffServer, binding
\* LightLightnessServer and skipping LightCTLServer
C13_Witness ==
    /\ callbacks
    /\ composition.present
    /\ returned[GenericOnOffServer] = "False"
    /\ returned[LightLightnessServer] = "True"
    /\ returned[LightCTLServer] = "False"
    /\ \A m \in Models : bind_calls[m] = 1

-----------------------------------------------------------------------------
(* Capabilities *)

\* the models whose binding grants a capability tag
Grants(property) ==
    CASE property = OnOffProperty -> {GenericOnOffServer, LightLightnessServer}
      [] property = BrightnessProperty -> {LightLightnessServer, LightCTLServer}
      [] property = TemperatureProperty -> {LightCTLServer}

Properties == {OnOffProperty, BrightnessProperty, TemperatureProperty}

\* a tag is supported only if a model granting it is bound; once bind has
\* returned, every tag a bound model grants is supported
CapabilitiesGranted ==
    /\ features \subseteq Properties
    /\ \A p \in Properties :
          /\ supports(Self, p) => Grants(p) \cap bound_models # {}
          /\ (callbacks /\ Grants(p) \cap bound_models # {}) => supports(Self, p)

\* C14: in every reachable state supports(onoff) holds only if
\* GenericOnOffServer or LightLightnessServer is bound, supports(brightness)
\* only if LightLightnessServer or LightCTLServer is bound, supports(temperature)
\* only if LightCTLServer is bound; once bind has completed each bound model's
\* tags are all present; and no step removes a tag.
C14_CapabilitySet ==
    /\ []CapabilitiesGranted
    /\ [][features \subseteq features']_vars

\* bind returned with LightLightnessServer alone bound: onoff and brightness
C14_Witness ==
    /\ callbacks
    /\ bound_models = {LightLightnessServer}
    /\ features = {OnOffProperty, BrightnessProperty}

-----------------------------------------------------------------------------
(* Clamping of outgoing values *)

\* a light whose mired limits are narrower than the defaults, and the defaults
ClampConfigs ==
    {[availability_failures |-> 0, mireds_min |-> m[1], mireds_max |-> m[2]] :
        m \in {<<153, 500>>, <<BLE_MESH_MIN_MIRED, BLE_MESH_MAX_MIRED>>}}

\* setter calls with a brightness below and above the range, and with a
\* temperature absent (0), below, inside and above the range
ClampCommands ==
    {[f |-> "set_brightness", brightness |-> b, ack |-> a] :
        b \in {0 - 1, 70000}, a \in BOOLEAN}
    \cup {[f |-> "kelvin", temperature |-> k, ack |-> a] :
             k \in {0, 1000, 3000, 9000}, a \in BOOLEAN}
    \cup {[f |-> "mireds_to_kelvin", temperature |-> m, ack |-> a,
           is_tuya |-> FALSE] : m \in {100, 370}, a \in BOOLEAN}

ClampNext ==
    \/ Bind
    \/ \E resp \in Answers(Awaited) : Respond(resp)
    \/ \E c \in ClampCommands : Command(c)

ClampSpec == Constructed(ClampConfigs) /\ [][ClampNext]_vars

\* the step is a call of a brightness or temperature setter
SetterCall(tr) ==
    /\ tr # <<>>
    /\ tr[1].kind = "call"
    /\ tr[1].op.f \in {"set_brightness", "kelvin", "mireds_to_kelvin"}

\* the request or notification at position i of a setter's trace carries a
\* brightness in 0..65535 and a temperature in min_kelvin..max_kelvin
InRange(tr, i) ==
    CASE tr[i].kind = "notify" /\ tr[i].property = BrightnessProperty ->
             tr[i].value \in BLE_MESH_MIN_LIGHTNESS..BLE_MESH_MAX_LIGHTNESS
      [] tr[i].kind = "notify" /\ tr[i].property = TemperatureProperty ->
             tr[i].value \in kelvin_limits(Self)[1]..kelvin_limits(Self)[2]
      [] tr[i].kind = "request"
             /\ tr[i].call \in {"set_lightness_unack", "set_lightness"} ->
             tr[i].lightness \in BLE_MESH_MIN_LIGHTNESS..BLE_MESH_MAX_LIGHTNESS
      [] tr[i].kind = "request" /\ tr[i].call = "set_ctl_unack" ->
             /\ tr[i].ctl_lightness
                    \in BLE_MESH_MIN_LIGHTNESS..BLE_MESH_MAX_LIGHTNESS
             /\ tr[i].ctl_temperature
                    \in kelvin_limits(Self)[1]..kelvin_limits(Self)[2]
      [] tr[i].kind = "request" /\ tr[i].call = "set_ctl" ->
             tr[i].ctl_temperature
                 \in kelvin_limits(Self)[1]..kelvin_limits(Self)[2]
      [] OTHER -> TRUE

\* C15: for every input, the brightness notified and sent by a brightness or
\* CTL set request lies in 0..65535 and the temperature notified and sent by a
\* CTL set request that is not vendor-scaled lies in min_kelvin..max_kelvin,
\* also when it is the retained temperature or the default.
C15_OutgoingClamped ==
    [][SetterCall(trace') =>
          \A i \in DOMAIN trace' : InRange(trace', i)]_vars

-----------------------------------------------------------------------------
(* The conversions as pure functions *)

\* configured mired limits: below 1, below and above the hardware range,
\* equal, inverted
ConvMireds == {0 - 5, 0, 5, 10, 100, 153, 154, 500, 2000, 5000}

ConvConfigs ==
    {[availability_failures |-> 0, mireds_min |-> lo, mireds_max |-> hi] :
        lo \in ConvMireds, hi \in ConvMireds}

\* kelvin arguments: fixed samples, and the node's own limits and their
\* neighbours
KelvinSamples == {0 - 1, 0, 799, 3000, 6500, 6514, 20001, 150000}

KelvinArgs ==
    KelvinSamples
    \cup {kelvin_limits(Self)[i] + d : i \in {1, 2}, d \in {0 - 1, 0, 1}}

\* a call of a conversion and the value it returned
Converted(f, k, value) ==
    /\ trace' = <<[kind |-> "call", op |-> [f |-> f, kelvin |-> k]],
                  [kind |-> "returned", op |-> f, value |-> value]>>
    /\ UNCHANGED <<config, availability_threshold, availability_failures,
                   availability_state, composition, bound_models, features,
                   retained_values, callbacks, ready, task, poll, returned,
                   bind_calls, bind_requests, consecutive>>

ClampKelvin(k) ==
    Converted("_clamp_kelvin", k, clamp_kelvin(Self, k))

TuyaLevel(k) ==
    /\ kelvin_limits(Self)[2] <= MaxLevelKelvin
    /\ Converted("kelvin_to_tuya_level", k, kelvin_to_tuya_level(Self, k))

ConvNext ==
    \/ \E k \in KelvinArgs : ClampKelvin(k)
    \/ \E k \in KelvinArgs : TuyaLevel(k)

ConvSpec == Constructed(ConvConfigs) /\ [][ConvNext]_vars

\* the last step called the conversion f
Called(f) ==
    /\ trace # <<>>
    /\ trace[1].kind = "call"
    /\ trace[1].op.f = f

\* C16: for every configured pair of mired limits the derived limits satisfy
\* 1 <= min_mired <= max_mired and 800 <= min_kelvin <= max_kelvin <= 20000,
\* and _clamp_kelvin returns a value in 800..20000 for every kelvin k.
C16_LimitsInHardwareRange ==
    /\ 1 <= mired_limits(Self)[1]
    /\ mired_limits(Self)[1] <= mired_limits(Self)[2]
    /\ BLE_MESH_MIN_TEMPERATURE <= kelvin_limits(Self)[1]
    /\ kelvin_limits(Self)[1] <= kelvin_limits(Self)[2]
    /\ kelvin_limits(Self)[2] <= BLE_MESH_MAX_TEMPERATURE
    /\ Called("_clamp_kelvin")
           => trace[2].value
                 \in BLE_MESH_MIN_TEMPERATURE..BLE_MESH_MAX_TEMPERATURE

\* the level returned for k is not above the level of any larger argument
\* inside the limits
LevelMonotone(limits, k, level) ==
    \A other \in KelvinArgs :
       (limits[2] <= MaxLevelKelvin /\ limits[1] <= k /\ k <= other /\ other <= limits[2])
           => level <= kelvin_to_tuya_level(Self, other)

\* what kelvin_to_tuya_level returned for k under the limits
LevelCorrect(limits, k, level) ==
    /\ level \in BLE_MESH_MIN_TEMPERATURE..BLE_MESH_MAX_TEMPERATURE
    /\ limits[1] = limits[2] => level = BLE_MESH_MIN_TEMPERATURE
    /\ (limits[1] < limits[2] /\ k = limits[1])
           => level = BLE_MESH_MIN_TEMPERATURE
    /\ (limits[1] < limits[2] /\ k = limits[2])
           => level = BLE_MESH_MAX_TEMPERATURE
    /\ LevelMonotone(limits, k, level)

\* C17: kelvin_to_tuya_level is non-decreasing in kelvin over
\* min_kelvin..max_kelvin, returns exactly 800 at min_kelvin and exactly 20000
\* at max_kelvin when min_kelvin < max_kelvin, returns 800 when
\* min_kelvin = max_kelvin, and returns a value in 800..20000 for every input.
C17_TuyaLevel ==
    Called("kelvin_to_tuya_level")
        => LevelCorrect(kelvin_limits(Self), trace[1].op.kelvin, trace[2].value)

\* the level of max_kelvin, for limits that differ, is 20000
C17_Witness ==
    /\ Called("kelvin_to_tuya_level")
    /\ kelvin_limits(Self)[1] < kelvin_limits(Self)[2]
    /\ trace[1].op.kelvin = kelvin_limits(Self)[2]
    /\ trace[2].value = BLE_MESH_MAX_TEMPERATURE

-----------------------------------------------------------------------------
(* Inbound lightness status *)

\* a status from this node: one availability success, and brightness notified
\* with the present lightness
OwnStatusHandled(lightness) ==
    LightnessStatus(Unicast, lightness)
        => /\ availability_failures' = 0
           /\ availability_state' = "online"
           /\ Cached(retained_values', BrightnessProperty, lightness)
           /\ Cardinality(Notes(trace', BrightnessProperty, lightness)) = 1
           /\ Cardinality(Notes(trace', "availability", "online"))
                  = (IF availability_state # "online" THEN 1 ELSE 0)
           /\ Cardinality(Notifications(trace'))
                  = (IF availability_state # "online" THEN 2 ELSE 1)
           /\ Requests(trace') = {}

\* a status from another node: nothing changes, nothing is emitted
OtherStatusIgnored(lightness) ==
    LightnessStatus(OtherUnicast, lightness)
        => /\ retained_values' = retained_values
           /\ availability_failures' = availability_failures
           /\ availability_state' = availability_state
           /\ trace' = <<>>

\* C18: a lightness status whose source is the node's unicast address records
\* one availability success and notifies brightness with the message's present
\* lightness; a status from any other source leaves the retained cache, the
\* failure counter and the availability state unchanged and emits nothing.
C18_InboundStatus ==
    [][\A lightness \in DeviceLightness :
          /\ OwnStatusHandled(lightness)
          /\ OtherStatusIgnored(lightness)]_vars

\* a status from this node brought a node that was not online online and set
\* its brightness
C18_Witness ==
    /\ trace = <<[kind |-> "notify", property |-> "availability",
                  value |-> "online"],
                 [kind |-> "notify", property |-> BrightnessProperty,
                  value |-> 300]>>
    /\ availability_state = "online"
    /\ availability_failures = 0
    /\ Cached(retained_values, BrightnessProperty, 300)

-----------------------------------------------------------------------------
(* A status arriving while a brightness request is in flight *)

\* the task awaits the answer to a set_lightness or set_lightness_unack request
BrightnessInFlight ==
    Awaited.f \in {"set_lightness_unack", "set_lightness"}

\* the brightness in the cache differs after the step
BrightnessChanged ==
    \/ (BrightnessProperty \in DOMAIN retained_values')
           # (BrightnessProperty \in DOMAIN retained_values)
    \/ /\ BrightnessProperty \in DOMAIN retained_values
       /\ ~Cached(retained_values', BrightnessProperty,
                  retained_values[BrightnessProperty])

\* C19: the optimistic write of set_brightness(v) is in the cache, as one whole
\* step, when its request goes in flight; a lightness status from this node
\* (value w) delivered while the request is in flight leaves the retained
\* brightness at w; while the request is in flight, and when it is answered,
\* nothing but such a status changes the retained brightness, so the status
\* value is not overwritten by the optimistic value of the earlier command.
C19_StatusAfterOptimisticWrite ==
    [][/\ (~BrightnessInFlight /\ BrightnessInFlight')
             => Cached(retained_values', BrightnessProperty,
                       Min(Awaited'.lightness, BLE_MESH_MAX_LIGHTNESS))
       /\ BrightnessInFlight
             => /\ \A w \in DeviceLightness :
                      LightnessStatus(Unicast, w)
                          => /\ Cached(retained_values', BrightnessProperty, w)
                             /\ task' = task
                /\ BrightnessChanged
                      => \E w \in DeviceLightness : LightnessStatus(Unicast, w)
                /\ SetAnswered => retained_values' = retained_values]_vars

\* set_brightness(65536) wrote 65535 and is in flight; the status that arrived
\* since left 300 in the cache
C19_Witness ==
    /\ BrightnessInFlight
    /\ Awaited.lightness = 65536
    /\ Cached(retained_values, BrightnessProperty, 300)

-----------------------------------------------------------------------------
(* The availability state against the failure counter *)

\* offline exactly when the counter has reached the threshold
StateAgreesWithCounter ==
    /\ availability_state \in {"unknown", "online", "offline"}
    /\ (availability_state = "offline")
           <=> (availability_failures >= availability_threshold)
    /\ availability_state \in {"unknown", "online"}
           => availability_failures < availability_threshold
    /\ availability_failures >= 0

\* C20: in every reachable state the availability state is offline exactly
\* when the failure counter is at least the threshold, unknown or online only
\* when the counter is below the threshold; and the state unknown is never
\* entered again once left.
C20_StateAgreesWithCounter ==
    /\ []StateAgreesWithCounter
    /\ [][availability_state # "unknown"
              => availability_state' # "unknown"]_vars

\* online with failures on record, one short of the threshold
C20_Witness ==
    /\ availability_state = "online"
    /\ availability_failures > 0
    /\ availability_failures = availability_threshold - 1

====
